---- MODULE Spec2Model ----
(***************************************************************************)
(* Model of the URG range-sensor client (src/src/lib.rs).                  *)
(*                                                                         *)
(* One session (struct Urg) is driven by a single caller.  Every public    *)
(* operation is a call action that writes its command line, followed by    *)
(* one action per blocking line read (recv_data); the device is the        *)
(* environment and chooses each line it sends.  Bytes are integers 0..255  *)
(* and byte strings are sequences of bytes.                                *)
(***************************************************************************)
EXTENDS Integers, Sequences, FiniteSets, TLC

\* ---------------------------------------------------------------- bounds
MaxScan == 3        \* largest num_of_scan the caller passes
MaxStop == 2        \* largest record index at which the caller's callback first returns true
MaxDataLines == 2   \* most non-terminator data-block lines the device sends during one operation
MaxDecodeLen == 4    \* longest byte slice handed to decode on its own

\* ------------------------------------------------------------- constants
NL == 10            \* b'\n'

\* ------------------------------------------------------------ byte strings
\* Slice(s, lo, hi) is the Rust slice s[lo..hi] (0-based, hi exclusive).
Slice(s, lo, hi) == SubSeq(s, lo + 1, hi)

RECURSIVE Digits(_)
\* decimal numeral of n as bytes, as the {} formatter prints a u32
Digits(n) == IF n < 10 THEN <<48 + n>> ELSE Digits(n \div 10) \o <<48 + (n % 10)>>

RECURSIVE PadZero(_, _)
\* {:0>w}: pad on the left with '0' up to a minimum width w, never truncate
PadZero(s, w) == IF Len(s) >= w THEN s ELSE PadZero(<<48>> \o s, w)

Fmt(n, w) == PadZero(Digits(n), w)

\* ---------------------------------------------------------------- commands
CmdVV == <<86, 86>>   \* "VV"
CmdPP == <<80, 80>>   \* "PP"
CmdII == <<73, 73>>   \* "II"
CmdBM == <<66, 77>>   \* "BM"
CmdQT == <<81, 84>>   \* "QT"
CmdRB == <<82, 66>>   \* "RB"

Status00 == <<48, 48>>   \* "00"
Status01 == <<48, 49>>   \* "01"
Status99 == <<57, 57>>   \* "99"

SingleOps == {"get_distance", "get_distance_intensity"}
MultiOps == {"get_distance_multi", "get_distance_intensity_multi"}
InfiniteOps == {"get_distance_infinite", "get_distance_intensity_infinite"}
QueryOps == {"get_version_info", "get_sensor_params", "get_status_info"}
IntensityOps == {"get_distance_intensity", "get_distance_intensity_multi",
                 "get_distance_intensity_infinite"}

\* the two-letter prefix of a scan command
Prefix(o) ==
    IF o = "get_distance" THEN <<71, 68>>                 \* "GD"
    ELSE IF o = "get_distance_intensity" THEN <<71, 69>>  \* "GE"
    ELSE IF o \in IntensityOps THEN <<77, 69>>            \* "ME"
    ELSE <<77, 68>>                                       \* "MD"

\* format!("GD{:0>4}{:0>4}{:0>2}", start_step, end_step, cluster_count)
SingleCmd(o, a) ==
    Prefix(o) \o Fmt(a.start_step, 4) \o Fmt(a.end_step, 4) \o Fmt(a.cluster_count, 2)

\* format!("MD{:0>4}{:0>4}{:0>2}{:0>1}{:0>2}", ..., scan_skip_count, count)
MultiCmd(o, a, count) ==
    Prefix(o) \o Fmt(a.start_step, 4) \o Fmt(a.end_step, 4) \o Fmt(a.cluster_count, 2)
              \o Fmt(a.scan_skip_count, 1) \o Fmt(count, 2)

\* format!("MD{:0>4}{:0>4}{:0>2}{:0>1}00", ...)
InfiniteCmdOne(o, a) == MultiCmd(o, a, 1)
InfiniteCmd(o, a) ==
    Prefix(o) \o Fmt(a.start_step, 4) \o Fmt(a.end_step, 4) \o Fmt(a.cluster_count, 2)
              \o Fmt(a.scan_skip_count, 1) \o <<48, 48>>

\* the command a bounded multi-scan expects to be echoed for a frame, built
\* from the decremented remaining_scan
DerivedCmdStale(o, a, rem) == MultiCmd(o, a, rem + 1)
DerivedCmd(o, a, rem) == MultiCmd(o, a, rem)

\* remaining_scan -= 1
Decrement(rem) == rem - 1

\* if remaining_scan == 0 { break; }
LoopDoneEarly(rem) == rem <= 1
LoopDone(rem) == rem = 0

\* if callback_break(record) { break; }
LoopBreakAlways(stop) == TRUE
LoopBreak(stop) == stop

\* a continuation handshake is check_send_cmd_response, not send_cmd: the command
\* lines written stay as they are
ContinuationWritesCmd(w, c) == Append(w, c)
ContinuationWrites(w, c) == w

\* if n != 6 { bail!(..) }
TimestampLenAtLeast5(n) == n >= 5
TimestampLenOk(n) == n = 6

\* if n == 1 { break; }
IsTerminatorShort(n) == n \in 1..2
IsTerminator(n) == n = 1

\* raw_data.extend_from_slice(&buffer[..n - 2])
BlockContentKeepChecksum(line, n) == SubSeq(line, 1, n - 1)
BlockContent(line, n) == SubSeq(line, 1, n - 2)

\* the statuses reboot requires of its first and second "RB" exchange
RebootStatusSame(i) == Status00
RebootStatus(i) == IF i = 1 THEN Status01 ELSE Status00

\* a scan retrieval does not look at is_capturing before it writes its command
ScanAllowedWhenCapturing(capturing) == capturing
ScanAllowed(capturing) == TRUE

\* the value start_capture / stop_capture assign to is_capturing
CaptureValueSwapped(o) == (o = "stop_capture")
CaptureValue(o) == (o = "start_capture")

\* ------------------------------------------------------------------ codec
RECURSIVE DecodeFrom(_, _)
\* res <<= 6; res += ((byte - 0x30) & 0b00111111) as u32, in u8 / u32 arithmetic:
\* the shift keeps the low 26 bits of res, the subtraction wraps modulo 256
DecodeStepNoMask(res, byte) == ((res % 67108864) * 64) + ((byte - 48) % 256)
DecodeStep(res, byte) == ((res % 67108864) * 64) + (((byte - 48) % 256) % 64)

\* byte - 0x30 on u8 traps when the build checks arithmetic overflow
DecodeTraps(byte) == byte < 48

DecodeFrom(res, raw) ==
    IF raw = <<>> THEN res
    ELSE DecodeFrom(DecodeStep(res, Head(raw)), Tail(raw))

\* the value decode returns when no subtraction traps
decode(raw) == DecodeFrom(0, raw)

RECURSIVE ChunksExact(_, _)
\* raw.chunks_exact(w): the complete w-byte chunks, a shorter remainder is dropped
ChunksExact(raw, w) ==
    IF Len(raw) < w THEN <<>>
    ELSE <<Slice(raw, 0, w)>> \o ChunksExact(Slice(raw, w, Len(raw)), w)

\* the record a scan operation builds from a timestamp and a data block
MakePayloadNarrow(o, ts, raw) ==
    LET ch == ChunksExact(raw, 3) IN
    [time_stamp |-> ts,
     distance   |-> [i \in 1..Len(ch) |-> decode(ch[i])],
     intensity  |-> IF o \in IntensityOps
                    THEN LET c6 == ChunksExact(raw, 6) IN
                         [i \in 1..Len(c6) |-> decode(Slice(c6[i], 3, 6))]
                    ELSE <<>>]
MakePayload(o, ts, raw) ==
    IF o \in IntensityOps
    THEN LET ch == ChunksExact(raw, 6) IN
         [time_stamp |-> ts,
          distance   |-> [i \in 1..Len(ch) |-> decode(Slice(ch[i], 0, 3))],
          intensity  |-> [i \in 1..Len(ch) |-> decode(Slice(ch[i], 3, 6))]]
    ELSE LET ch == ChunksExact(raw, 3) IN
         [time_stamp |-> ts,
          distance   |-> [i \in 1..Len(ch) |-> decode(ch[i])],
          intensity  |-> <<>>]

\* ------------------------------------------------------- query field lines
\* the kind of each field line an information query reads, in order
FieldKinds(o) ==
    IF o = "get_version_info" THEN <<"text", "text", "text", "text", "text">>
    ELSE IF o = "get_sensor_params"
    THEN <<"text", "u32", "u32", "u32", "u32", "u32", "u32", "u32">>
    ELSE <<"text", "text", "u32", "text", "text", "decode", "text">>

RECURSIVE DecimalValue(_, _)
DecimalValue(acc, s) ==
    IF s = <<>> THEN acc ELSE DecimalValue(acc * 10 + (Head(s) - 48), Tail(s))

RECURSIVE StripZeros(_)
StripZeros(s) == IF s # <<>> /\ Head(s) = 48 THEN StripZeros(Tail(s)) ELSE s

RECURSIVE LexLeq(_, _)
\* s <= t for two digit strings of the same length
LexLeq(s, t) ==
    IF s = <<>> THEN TRUE
    ELSE IF Head(s) # Head(t) THEN Head(s) < Head(t)
    ELSE LexLeq(Tail(s), Tail(t))

U32MaxDigits == <<52, 50, 57, 52, 57, 54, 55, 50, 57, 53>>   \* "4294967295"

\* digit_str.to_str()?.parse::<u32>(): an optional '+', then one or more ASCII
\* digits, with a value that fits in 32 bits
ParseDigits(s) == IF s # <<>> /\ Head(s) = 43 THEN Tail(s) ELSE s
ParseOk(s) ==
    /\ ParseDigits(s) # <<>>
    /\ \A i \in 1..Len(ParseDigits(s)) : ParseDigits(s)[i] \in 48..57
    /\ LET d == StripZeros(ParseDigits(s)) IN
          Len(d) < 10 \/ (Len(d) = 10 /\ LexLeq(d, U32MaxDigits))
ParseValue(s) == DecimalValue(0, ParseDigits(s))

\* ------------------------------------------------------- the device's lines
EOF == <<>>                            \* read_until returned 0 bytes
Terminator == <<NL>>                   \* "\n"
ChecksumOnly == <<80, NL>>             \* "P\n"
EchoLine(c) == c \o <<NL>>
StatusLine(st) == st \o <<80, NL>>     \* status, checksum byte, newline
TimestampLine == <<48, 48, 48, 49, 80, NL>>                 \* "0001P\n"
DataLine2 == <<48, 65, 80, NL>>                             \* "0AP\n"
DataLine3 == <<49, 68, 104, 80, NL>>                        \* "1DhP\n"
FieldText == <<80, 82, 79, 68, 58, 97, 98, 59, 80, NL>>     \* "PROD:ab;P\n"
FieldNum == <<68, 77, 73, 78, 58, 50, 48, 59, 80, NL>>      \* "DMIN:20;P\n"
FieldPlus == <<68, 77, 73, 78, 58, 43, 53, 59, 80, NL>>     \* "DMIN:+5;P\n"
FieldEmpty == <<68, 77, 73, 78, 58, 59, 80, NL>>            \* "DMIN:;P\n"
\* the last bytes of a stream that ends inside a line: read_until returns them
\* without a newline
PartialData == <<49, 68, 104, 80>>                          \* "1DhP"
PartialField == <<80, 82, 79, 68, 58, 97, 98, 59, 80>>      \* "PROD:ab;P"
PartialStatus == <<48, 48, 80>>                             \* "00P"

NoArgs == [start_step |-> 0, end_step |-> 0, cluster_count |-> 0, scan_skip_count |-> 0]
\* the scan arguments the caller passes
ScanArgs == {[start_step |-> 44, end_step |-> 725, cluster_count |-> 1, scan_skip_count |-> 2]}
\* the arguments of a different request, whose echo the device may send instead
OtherArgs == {[start_step |-> 0, end_step |-> 1080, cluster_count |-> 0, scan_skip_count |-> 0]}

\* every command line some operation of the model compares an echo against
AllCmds ==
    {CmdVV, CmdPP, CmdII, CmdBM, CmdQT, CmdRB}
    \cup {SingleCmd(o, a) : o \in SingleOps, a \in ScanArgs \cup OtherArgs}
    \cup {MultiCmd(o, a, n) : o \in MultiOps, a \in ScanArgs, n \in 0..MaxScan}
    \cup {MultiCmd(o, a, n) : o \in MultiOps, a \in OtherArgs, n \in 0..1}

Common == {EOF, Terminator, ChecksumOnly}

\* the lines the device may deliver to the read done at a position
LinesAt(pos) ==
    IF pos = "echo" THEN Common \cup {EchoLine(c) : c \in AllCmds} \cup {StatusLine(Status00)}
    ELSE IF pos = "status"
    THEN Common \cup {StatusLine(s) : s \in {Status00, Status01, Status99}} \cup {PartialStatus}
    ELSE IF pos = "close" THEN Common \cup {DataLine3}
    ELSE IF pos = "field" THEN Common \cup {FieldText, FieldNum, DataLine3, PartialField}
    ELSE IF pos = "numfield" THEN Common \cup {FieldText, FieldNum, FieldPlus, FieldEmpty}
    ELSE IF pos = "ts" THEN Common \cup {TimestampLine, DataLine3}
    ELSE Common \cup {DataLine2, DataLine3, PartialData}

\* --------------------------------------------- a device following the protocol
StatusRefused == <<49, 48>>            \* "10", a status no operation accepts

\* one scan frame as the operation's get_raw_data consumes it
FrameLines(o) ==
    <<TimestampLine, DataLine3>> \o (IF o \in IntensityOps THEN <<DataLine3>> ELSE <<>>)
                                 \o <<Terminator>>

RECURSIVE FieldLines(_)
FieldLines(kinds) ==
    IF kinds = <<>> THEN <<>>
    ELSE <<IF Head(kinds) = "u32" THEN FieldNum ELSE FieldText>> \o FieldLines(Tail(kinds))

RECURSIVE MultiFrames(_, _, _)
\* the frames of a bounded multi-scan, each announced by the echo carrying the
\* scans remaining after it and status "99"
MultiFrames(o, a, rem) ==
    IF rem = 0 THEN <<>>
    ELSE <<EchoLine(MultiCmd(o, a, rem - 1)), StatusLine(Status99)>> \o FrameLines(o)
         \o MultiFrames(o, a, rem - 1)

RECURSIVE InfiniteFrames(_, _, _)
\* the first k frames of the stream an infinite scan starts
InfiniteFrames(o, c, k) ==
    IF k = 0 THEN <<>>
    ELSE <<EchoLine(c), StatusLine(Status99)>> \o FrameLines(o) \o InfiniteFrames(o, c, k - 1)

Accepted(c, st) == <<EchoLine(c), StatusLine(st)>>
Refused(c) == <<EchoLine(c), StatusLine(StatusRefused), Terminator>>

\* the responses the device may give to command c of operation o: the lines the
\* operation reads on its success path, or a refusal.  nth is the number of the
\* "RB" exchange; an infinite scan streams one frame more than the caller takes.
Response(o, c, a, n, k, nth) ==
    IF o \in QueryOps
    THEN {Accepted(c, Status00) \o FieldLines(FieldKinds(o)) \o <<Terminator>>}
    ELSE IF o = "reboot" THEN {Accepted(c, RebootStatus(nth)) \o <<Terminator>>}
    ELSE IF o = "stop_capture" THEN {Accepted(c, Status00) \o <<Terminator>>}
    ELSE IF o = "start_capture" THEN {Accepted(c, Status00) \o <<Terminator>>, Refused(c)}
    ELSE IF o \in SingleOps THEN {Accepted(c, Status00) \o FrameLines(o), Refused(c)}
    ELSE IF o \in MultiOps
    THEN {Accepted(c, Status00) \o <<Terminator>> \o MultiFrames(o, a, n), Refused(c)}
    ELSE {Accepted(c, Status00) \o <<Terminator>> \o InfiniteFrames(o, c, k + 1), Refused(c)}

\* ------------------------------------------------------------------ state
VARIABLES
    is_capturing,    \* Urg.is_capturing
    ip_address,      \* Urg.ip_address
    port,            \* Urg.port
    consumed,        \* the session was moved into reboot(self)
    op,              \* the operation called last
    args,            \* its scan arguments
    num_of_scan,     \* its num_of_scan argument (0 when it has none)
    stop_at,         \* the record at which the caller's callback first returns true
    pc,              \* "idle", or the position of the line read the operation blocks on
    cmd,             \* the command string the next echo is compared against
    ok_status,       \* the status the next status line is compared against
    remaining_scan,  \* the local remaining_scan of a bounded multi-scan
    buffer,          \* the line buffer, holding the line read last
    time_stamp,      \* the decoded timestamp of the frame being read
    raw_data,        \* the data block accumulated so far
    nblock,          \* number of non-terminator data-block lines the operation has read
    payload,         \* the records built so far (pushed, returned or handed to the callback)
    fields,          \* the field values a query has parsed so far
    result,          \* "none" while running, else how the last operation ended
    written,         \* the command lines the operation has written
    log,             \* the writes, line reads and callback calls of the operation, in order
    acks,            \* the <<command, status>> pairs check_send_cmd_response accepted
    frames,          \* the <<timestamp, data block>> pairs received, in arrival order
    block_lines,     \* the non-terminator lines read into the current data block, in order
    device,          \* "any": the device sends arbitrary lines; "conforming": it answers
                     \* every command with the lines that command's operation consumes
    wire,            \* conforming device: the lines sent and not yet read
    desync,          \* a command was written while earlier response lines were unread
    stream_ended,    \* a read returned 0 bytes or bytes without a newline: the stream is over
    d_raw,           \* decode run on its own: the byte slice
    d_pos,           \* the number of bytes the loop has consumed
    d_res,           \* the local res
    d_state,         \* "off", "run", "done" or "panic"
    d_checks,        \* the build checks arithmetic overflow (debug profile)
    f_op,            \* command formatting run on its own: the scan operation
    f_args,          \* its arguments, num_of_scan included
    f_cmd,           \* the command string format! built
    f_state,         \* "off", "ready" or "done"
    threads,         \* two threads sharing one session: per thread, its operation, the
                     \* position of its next line read, its field count, its outcome,
                     \* the lines its BufReader holds, and whether it consumed a line
                     \* sent in response to the other thread's command
    t_wire,          \* the lines in the socket, each with the thread whose command it answers
    t_sent,          \* number of lines the device has sent
    t_taken          \* the order numbers of the lines read from the socket, in read order

vars == <<is_capturing, ip_address, port, consumed, op, args, num_of_scan, stop_at, pc, cmd, ok_status,
          remaining_scan, buffer, time_stamp, raw_data, nblock, payload, fields, result,
          written, log, acks, frames, block_lines, device, wire, desync, stream_ended,
          d_raw, d_pos, d_res, d_state, d_checks, f_op, f_args, f_cmd, f_state,
          threads, t_wire, t_sent, t_taken>>

dvars == <<d_raw, d_pos, d_res, d_state, d_checks>>
fvars == <<f_op, f_args, f_cmd, f_state>>
tvars == <<threads, t_wire, t_sent, t_taken>>
mainvars == <<is_capturing, ip_address, port, consumed, op, args, num_of_scan, stop_at, pc, cmd, ok_status,
              remaining_scan, buffer, time_stamp, raw_data, nblock, payload, fields, result,
              written, log, acks, frames, block_lines, device, wire, desync, stream_ended>>

callv == <<op, args, num_of_scan, stop_at, consumed, device, desync, ip_address, port,
           dvars, fvars, tvars>>

ReadPcs == {"echo", "status", "close", "field", "ts", "data"}
Results == {"none", "ok", "err_io", "err_echo", "err_status", "err_field", "err_parse",
            "err_timestamp", "panic"}

\* the endpoints a caller opens
IpAddrs == {"192.168.0.10"}
Ports == {10940}

\* Urg::open: connected, no command issued
Opened ==
    /\ is_capturing = FALSE
    /\ ip_address \in IpAddrs /\ port \in Ports
    /\ consumed = FALSE
    /\ op = "none" /\ args = NoArgs /\ num_of_scan = 0 /\ stop_at = 0
    /\ pc = "idle" /\ cmd = <<>> /\ ok_status = <<>>
    /\ remaining_scan = 0
    /\ buffer = <<>> /\ time_stamp = 0 /\ raw_data = <<>> /\ nblock = 0
    /\ payload = <<>> /\ fields = <<>>
    /\ result = "none"
    /\ written = <<>> /\ log = <<>> /\ acks = <<>> /\ frames = <<>>
    /\ block_lines = <<>> /\ wire = <<>> /\ desync = FALSE /\ stream_ended = FALSE

DecodeOff == d_raw = <<>> /\ d_pos = 0 /\ d_res = 0 /\ d_state = "off" /\ d_checks = FALSE

FormatOff == f_op = "none" /\ f_args = NoArgs /\ f_cmd = <<>> /\ f_state = "off"

Threads == {1, 2}
ThreadIdle ==
    [pc |-> "idle", op |-> "none", nfields |-> 0, result |-> "none", buf |-> <<>>,
     foreign |-> FALSE]
ThreadsOff ==
    /\ threads = [t \in Threads |-> ThreadIdle]
    /\ t_wire = <<>> /\ t_sent = 0 /\ t_taken = <<>>

Init == Opened /\ device = "any" /\ DecodeOff /\ FormatOff /\ ThreadsOff

\* the same session talking to a device that follows the protocol
InitWire == Opened /\ device = "conforming" /\ DecodeOff /\ FormatOff /\ ThreadsOff

\* the operation returns (or unwinds) with outcome r
ReturnRetry(r) ==
    /\ result' = r
    /\ pc' = (IF r = "err_echo" /\ Len(log) = 1 THEN "echo" ELSE "idle")
Return(r) == pc' = "idle" /\ result' = r

\* the lines a read at a position can return, and what is left unread after it
Offered(pos) ==
    IF device = "any" THEN (IF stream_ended THEN {EOF} ELSE LinesAt(pos))
    ELSE IF wire = <<>> THEN {} ELSE {Head(wire)}
Unread == IF device = "any" THEN wire ELSE Tail(wire)

\* read_until stopped at the end of the stream, not at a newline
EndsStream(line) == line = <<>> \/ line[Len(line)] # NL

\* the lines unread once command c of operation o has reached the device
Sent(w, o, c, a, n, k, nth) ==
    IF device = "any" THEN {w} ELSE {w \o r : r \in Response(o, c, a, n, k, nth)}

\* send_cmd's write_all/flush at the start of operation o; a failed write returns
\* the I/O error before any line is read
Call(o, c, st, a, n, k) ==
    /\ pc = "idle" /\ result # "panic" /\ ~consumed
    /\ o \in (SingleOps \cup MultiOps \cup InfiniteOps) => ScanAllowed(is_capturing)
    /\ device = "conforming" => (~desync /\ result # "err_io")
    /\ op' = o /\ args' = a /\ num_of_scan' = n /\ stop_at' = k
    /\ consumed' = (o = "reboot")
    /\ cmd' = c /\ ok_status' = st
    /\ remaining_scan' = n
    /\ buffer' = <<>> /\ time_stamp' = 0 /\ raw_data' = <<>> /\ nblock' = 0
    /\ payload' = <<>> /\ fields' = <<>> /\ block_lines' = <<>>
    /\ written' = <<c>> /\ log' = <<"write">> /\ acks' = <<>> /\ frames' = <<>>
    /\ desync' = (wire # <<>>)
    /\ \E wok \in BOOLEAN :
          IF wok THEN /\ pc' = "echo" /\ result' = "none"
                      /\ wire' \in Sent(wire, o, c, a, n, k, 1)
          ELSE Return("err_io") /\ wire' = wire
    /\ UNCHANGED <<is_capturing, ip_address, port, device, stream_ended, dvars, fvars, tvars>>

GetVersionInfo == Call("get_version_info", CmdVV, Status00, NoArgs, 0, 0)
GetSensorParams == Call("get_sensor_params", CmdPP, Status00, NoArgs, 0, 0)
GetStatusInfo == Call("get_status_info", CmdII, Status00, NoArgs, 0, 0)
StartCapture == Call("start_capture", CmdBM, Status00, NoArgs, 0, 0)
StopCapture == Call("stop_capture", CmdQT, Status00, NoArgs, 0, 0)
Reboot == Call("reboot", CmdRB, RebootStatus(1), NoArgs, 0, 0)
GetDistance ==
    \E a \in ScanArgs : Call("get_distance", SingleCmd("get_distance", a), Status00, a, 0, 0)
GetDistanceIntensity ==
    \E a \in ScanArgs :
        Call("get_distance_intensity", SingleCmd("get_distance_intensity", a), Status00, a, 0, 0)
GetDistanceMulti ==
    \E a \in ScanArgs, n \in 1..MaxScan :
        Call("get_distance_multi", MultiCmd("get_distance_multi", a, n), Status00, a, n, 0)
GetDistanceIntensityMulti ==
    \E a \in ScanArgs, n \in 1..MaxScan :
        Call("get_distance_intensity_multi",
             MultiCmd("get_distance_intensity_multi", a, n), Status00, a, n, 0)
GetDistanceInfinite ==
    \E a \in ScanArgs, k \in 1..MaxStop :
        Call("get_distance_infinite", InfiniteCmd("get_distance_infinite", a), Status00, a, 0, k)
GetDistanceIntensityInfinite ==
    \E a \in ScanArgs, k \in 1..MaxStop :
        Call("get_distance_intensity_infinite",
             InfiniteCmd("get_distance_intensity_infinite", a), Status00, a, 0, k)

\* ------------------------------------------------------------- line reads
\* recv_data returned the line; it replaces the buffer
Recv(line, tag) ==
    /\ buffer' = line /\ log' = Append(log, tag) /\ wire' = Unread
    /\ stream_ended' = (stream_ended \/ EndsStream(line))

\* the log entry of a line consumed by a bare `_ = recv_data(..)?`
CloseTag(line) == IF line = Terminator THEN "close" ELSE "close_other"

\* &buffer[..n - 1] != cmd.as_bytes()
EchoMatchesAny(buf, n, c) == TRUE
EchoMatches(buf, n, c) == Slice(buf, 0, n - 1) = c

\* &buffer[..n - 2] != ok_status.as_bytes()
StatusMatches(buf, n, st) == Slice(buf, 0, n - 2) = st

\* where an operation continues once check_send_cmd_response returned Ok
AfterAck(o, nacks) ==
    IF o \in QueryOps THEN "field"
    ELSE IF o \in SingleOps THEN "ts"
    ELSE IF o \in MultiOps \cup InfiniteOps THEN (IF nacks = 0 THEN "close" ELSE "ts")
    ELSE "close"

\* check_send_cmd_response, first read: the echo line.  With n = 0 the slice
\* bound n - 1 underflows and the operation panics.
CheckEcho ==
    /\ pc = "echo"
    /\ \E line \in Offered("echo") :
          /\ Recv(line, "echo")
          /\ IF Len(line) = 0 THEN Return("panic")
             ELSE IF ~EchoMatches(line, Len(line), cmd) THEN Return("err_echo")
             ELSE pc' = "status" /\ result' = result
    /\ UNCHANGED <<is_capturing, callv, cmd, ok_status, remaining_scan, time_stamp, raw_data,
                   nblock, block_lines, payload, fields, written, acks, frames>>

\* check_send_cmd_response, second read: the status line.  With n < 2 the slice
\* bound n - 2 underflows and the operation panics.
CheckStatus ==
    /\ pc = "status"
    /\ \E line \in Offered("status") :
          /\ Recv(line, "status")
          /\ IF Len(line) < 2 THEN Return("panic") /\ acks' = acks
             ELSE IF ~StatusMatches(line, Len(line), ok_status)
             THEN Return("err_status") /\ acks' = acks
             ELSE /\ acks' = Append(acks, <<cmd, ok_status>>)
                  /\ pc' = AfterAck(op, Len(acks))
                  /\ result' = result
    /\ UNCHANGED <<is_capturing, callv, cmd, ok_status, remaining_scan, time_stamp, raw_data,
                   nblock, block_lines, payload, fields, written, frames>>

\* recv_data(...)? returned an I/O error at any read position
ReadFails ==
    /\ pc \in ReadPcs
    /\ buffer' = <<>>
    /\ log' = Append(log, "ioerr")
    /\ wire' = wire /\ stream_ended' = stream_ended
    /\ Return("err_io")
    /\ UNCHANGED <<is_capturing, callv, cmd, ok_status, remaining_scan, time_stamp, raw_data,
                   nblock, block_lines, payload, fields, written, acks, frames>>

\* start_capture / stop_capture: _ = recv_data(..)?; self.is_capturing = ..; Ok(())
CloseCapture ==
    /\ pc = "close" /\ op \in {"start_capture", "stop_capture"}
    /\ \E line \in Offered("close") : Recv(line, CloseTag(line))
    /\ is_capturing' = CaptureValue(op)
    /\ Return("ok")
    /\ UNCHANGED <<callv, cmd, ok_status, remaining_scan, time_stamp, raw_data,
                   nblock, block_lines, payload, fields, written, acks, frames>>

\* the queries: _ = recv_data(..)?; Ok(record)
CloseQuery ==
    /\ pc = "close" /\ op \in QueryOps
    /\ \E line \in Offered("close") : Recv(line, CloseTag(line))
    /\ Return("ok")
    /\ UNCHANGED <<is_capturing, callv, cmd, ok_status, remaining_scan, time_stamp, raw_data,
                   nblock, block_lines, payload, fields, written, acks, frames>>

\* reboot, after the first exchange: _ = recv_data(..)?; send_cmd("RB", "00")
RebootSecond ==
    /\ pc = "close" /\ op = "reboot" /\ Len(written) = 1
    /\ \E line \in Offered("close") :
          /\ buffer' = line
          /\ stream_ended' = (stream_ended \/ EndsStream(line))
          /\ log' = log \o <<CloseTag(line), "write">>
    /\ written' = Append(written, CmdRB)
    /\ cmd' = CmdRB /\ ok_status' = RebootStatus(2)
    /\ \E wok \in BOOLEAN :
          IF wok THEN /\ pc' = "echo" /\ result' = result
                      /\ wire' \in Sent(Unread, op, CmdRB, args, 0, 0, 2)
          ELSE Return("err_io") /\ wire' = Unread
    /\ UNCHANGED <<is_capturing, callv, remaining_scan, time_stamp, raw_data,
                   nblock, block_lines, payload, fields, acks, frames>>

\* reboot, after the second exchange: _ = recv_data(..)?; Ok(())
CloseReboot ==
    /\ pc = "close" /\ op = "reboot" /\ Len(written) = 2
    /\ \E line \in Offered("close") : Recv(line, CloseTag(line))
    /\ Return("ok")
    /\ UNCHANGED <<is_capturing, callv, cmd, ok_status, remaining_scan, time_stamp, raw_data,
                   nblock, block_lines, payload, fields, written, acks, frames>>

\* multi-scan, after the request was acknowledged: _ = recv_data(..)?, then the
\* first loop iteration up to its check_send_cmd_response
CloseMultiRequest ==
    /\ pc = "close" /\ op \in MultiOps
    /\ \E line \in Offered("close") : Recv(line, CloseTag(line))
    /\ remaining_scan' = Decrement(num_of_scan)
    /\ cmd' = DerivedCmd(op, args, remaining_scan')
    /\ ok_status' = Status99
    /\ written' = ContinuationWrites(written, cmd')
    /\ pc' = "echo"
    /\ UNCHANGED <<is_capturing, callv, time_stamp, raw_data, nblock, block_lines, payload, fields,
                   result, acks, frames>>

\* infinite scan, after the request was acknowledged: the same command string is
\* verified again with status "99"
CloseInfiniteRequest ==
    /\ pc = "close" /\ op \in InfiniteOps
    /\ \E line \in Offered("close") : Recv(line, CloseTag(line))
    /\ ok_status' = Status99
    /\ written' = ContinuationWrites(written, cmd)
    /\ pc' = "echo"
    /\ UNCHANGED <<is_capturing, callv, cmd, remaining_scan, time_stamp, raw_data, nblock, block_lines,
                   payload, fields, result, acks, frames>>

\* recv_b_string: n < 2 is an error; recv_b_string_sub: a content shorter than 6
\* is an error, else str[5..len - 1]; recv_b_string_u32 parses it as a u32
FieldContent(line) == Slice(line, 0, Len(line) - 2)
FieldSubKeepSuffix(line) == Slice(FieldContent(line), 5, Len(FieldContent(line)))
FieldSub(line) == Slice(FieldContent(line), 5, Len(FieldContent(line)) - 1)

\* the read position of a field: text fields and interpreted fields
FieldPos(kind) == IF kind = "text" THEN "field" ELSE "numfield"

\* Self::decode(&field) in get_status_info traps on a byte below 0x30 when the
\* build checks arithmetic overflow
FieldTraps(kind, s) == kind = "decode" /\ \E i \in 1..Len(s) : DecodeTraps(s[i])

RecvField ==
    /\ pc = "field" /\ op \in QueryOps
    /\ \E line \in Offered(FieldPos(FieldKinds(op)[Len(fields) + 1])) :
          /\ Recv(line, "field")
          /\ LET kind == FieldKinds(op)[Len(fields) + 1] IN
             IF Len(line) < 2 \/ Len(FieldContent(line)) < 6
             THEN Return("err_field") /\ fields' = fields
             ELSE IF kind = "u32" /\ ~ParseOk(FieldSub(line))
             THEN Return("err_parse") /\ fields' = fields
             ELSE \/ /\ FieldTraps(kind, FieldSub(line))
                     /\ Return("panic") /\ fields' = fields
                  \/ /\ fields' = Append(fields,
                                         IF kind = "u32" THEN ParseValue(FieldSub(line))
                                         ELSE IF kind = "decode" THEN decode(FieldSub(line))
                                         ELSE FieldSub(line))
                     /\ pc' = IF Len(fields') = Len(FieldKinds(op)) THEN "close" ELSE "field"
                     /\ result' = result
    /\ UNCHANGED <<is_capturing, callv, cmd, ok_status, remaining_scan, time_stamp, raw_data,
                   nblock, block_lines, payload, written, acks, frames>>

\* get_raw_data, first read: n != 6 is an error, else decode(&buffer[..4])
RecvTimestamp ==
    /\ pc = "ts"
    /\ \E line \in Offered("ts") :
          /\ Recv(line, "ts")
          /\ IF ~TimestampLenOk(Len(line))
             THEN Return("err_timestamp") /\ time_stamp' = time_stamp
             ELSE /\ time_stamp' = decode(Slice(line, 0, 4))
                  /\ pc' = "data"
                  /\ result' = result
    /\ raw_data' = <<>> /\ block_lines' = <<>>
    /\ UNCHANGED <<is_capturing, callv, cmd, ok_status, remaining_scan, nblock, payload, fields,
                   written, acks, frames>>

\* get_raw_data, the block loop on a line that is not the terminator:
\* raw_data.extend_from_slice(&buffer[..n - 2]); with n = 0 the bound underflows
RecvBlockLine ==
    /\ pc = "data"
    /\ \E line \in Offered("data") :
          /\ ~IsTerminator(Len(line))
          /\ (device = "any" /\ Len(line) >= 2) => nblock < MaxDataLines
          /\ Recv(line, "data")
          /\ IF Len(line) = 0
             THEN /\ Return("panic")
                  /\ UNCHANGED <<raw_data, nblock, block_lines>>
             ELSE /\ raw_data' = raw_data \o BlockContent(line, Len(line))
                  /\ nblock' = nblock + 1
                  /\ block_lines' = Append(block_lines, line)
                  /\ UNCHANGED <<pc, result>>
    /\ UNCHANGED <<is_capturing, callv, cmd, ok_status, remaining_scan, time_stamp, payload,
                   fields, written, acks, frames>>

\* the terminator (n == 1) ends the block; get_distance / get_distance_intensity
\* decode it and return the record
EndSingle ==
    /\ pc = "data" /\ op \in SingleOps
    /\ \E line \in Offered("data") : IsTerminator(Len(line)) /\ Recv(line, "term")
    /\ frames' = Append(frames, <<time_stamp, raw_data>>)
    /\ payload' = <<MakePayload(op, time_stamp, raw_data)>>
    /\ Return("ok")
    /\ UNCHANGED <<is_capturing, callv, cmd, ok_status, remaining_scan, time_stamp, raw_data,
                   nblock, block_lines, fields, written, acks>>

\* the terminator ends a frame of a bounded multi-scan: push the record, then
\* break when remaining_scan == 0, else start the next iteration
EndMulti ==
    /\ pc = "data" /\ op \in MultiOps
    /\ \E line \in Offered("data") : IsTerminator(Len(line)) /\ Recv(line, "term")
    /\ frames' = Append(frames, <<time_stamp, raw_data>>)
    /\ payload' = Append(payload, MakePayload(op, time_stamp, raw_data))
    /\ IF LoopDone(remaining_scan)
       THEN Return("ok") /\ UNCHANGED <<remaining_scan, cmd, written>>
       ELSE /\ remaining_scan' = Decrement(remaining_scan)
            /\ cmd' = DerivedCmd(op, args, remaining_scan')
            /\ written' = ContinuationWrites(written, cmd')
            /\ pc' = "echo" /\ result' = result
    /\ UNCHANGED <<is_capturing, callv, ok_status, time_stamp, raw_data, nblock, block_lines, fields,
                   acks>>

\* the terminator ends a frame of an infinite scan: the record is handed to
\* callback_break, which returns true first on record stop_at
EndInfinite ==
    /\ pc = "data" /\ op \in InfiniteOps
    /\ \E line \in Offered("data") :
          /\ IsTerminator(Len(line)) /\ buffer' = line /\ wire' = Unread
          /\ stream_ended' = (stream_ended \/ EndsStream(line))
    /\ log' = log \o <<"term", "callback">>
    /\ frames' = Append(frames, <<time_stamp, raw_data>>)
    /\ payload' = Append(payload, MakePayload(op, time_stamp, raw_data))
    /\ IF LoopBreak(Len(payload') = stop_at)
       THEN Return("ok") /\ written' = written
       ELSE /\ pc' = "echo" /\ result' = result
            /\ written' = ContinuationWrites(written, cmd)
    /\ UNCHANGED <<is_capturing, callv, cmd, ok_status, remaining_scan, time_stamp, raw_data,
                   nblock, block_lines, fields, acks>>

Next ==
    \/ GetVersionInfo \/ GetSensorParams \/ GetStatusInfo
    \/ StartCapture \/ StopCapture \/ Reboot
    \/ GetDistance \/ GetDistanceIntensity
    \/ GetDistanceMulti \/ GetDistanceIntensityMulti
    \/ GetDistanceInfinite \/ GetDistanceIntensityInfinite
    \/ CheckEcho \/ CheckStatus \/ ReadFails
    \/ CloseCapture \/ CloseQuery \/ RebootSecond \/ CloseReboot
    \/ CloseMultiRequest \/ CloseInfiniteRequest
    \/ RecvField \/ RecvTimestamp \/ RecvBlockLine
    \/ EndSingle \/ EndMulti \/ EndInfinite

Spec == Init /\ [][Next]_vars

\* the session against a device that follows the protocol
SpecWire == InitWire /\ [][Next]_vars

\* ------------------------------------------------------ decode, run on its own
DecodeBytes == {47, 48, 49, 68, 104, 111, 255}
DecodeInputs == UNION {[1..k -> DecodeBytes] : k \in 0..MaxDecodeLen}

DecodeInit ==
    /\ Opened /\ device = "any" /\ FormatOff /\ ThreadsOff
    /\ d_raw \in DecodeInputs /\ d_checks \in BOOLEAN
    /\ d_pos = 0 /\ d_res = 0 /\ d_state = "run"

\* one iteration of `for &byte in raw_data`
DecodeByte ==
    /\ d_state = "run" /\ d_pos < Len(d_raw)
    /\ ~(d_checks /\ DecodeTraps(d_raw[d_pos + 1]))
    /\ d_res' = DecodeStep(d_res, d_raw[d_pos + 1])
    /\ d_pos' = d_pos + 1
    /\ UNCHANGED <<mainvars, fvars, tvars, d_raw, d_state, d_checks>>

\* the iteration whose subtraction overflows in a build that checks it
DecodeTrap ==
    /\ d_state = "run" /\ d_pos < Len(d_raw)
    /\ d_checks /\ DecodeTraps(d_raw[d_pos + 1])
    /\ d_state' = "panic"
    /\ UNCHANGED <<mainvars, fvars, tvars, d_raw, d_pos, d_res, d_checks>>

\* the loop is over: decode returns res
DecodeReturn ==
    /\ d_state = "run" /\ d_pos = Len(d_raw)
    /\ d_state' = "done"
    /\ UNCHANGED <<mainvars, fvars, tvars, d_raw, d_pos, d_res, d_checks>>

DecodeNext == DecodeByte \/ DecodeTrap \/ DecodeReturn

SpecDecode == DecodeInit /\ [][DecodeNext]_vars

\* ------------------------------------------- command formatting, run on its own
\* the u32 / NonZeroU32 arguments a caller may pass, at and beyond the field widths
FormatSteps == {0, 44, 725, 9999, 10000}
FormatClusters == {0, 1, 99, 100}
FormatSkips == {0, 2, 9, 10}
FormatCounts == {1, 3, 99, 100}
FormatArgs ==
    [start_step : FormatSteps, end_step : FormatSteps, cluster_count : FormatClusters,
     scan_skip_count : FormatSkips, num_of_scan : FormatCounts]

FormatInit ==
    /\ Opened /\ device = "any" /\ DecodeOff /\ ThreadsOff
    /\ f_op \in SingleOps \cup MultiOps \cup InfiniteOps
    /\ f_args \in FormatArgs
    /\ f_cmd = <<>> /\ f_state = "ready"

\* let cmd = format!(..) of a single scan
FormatSingle ==
    /\ f_state = "ready" /\ f_op \in SingleOps
    /\ f_cmd' = SingleCmd(f_op, f_args)
    /\ f_state' = "done"
    /\ UNCHANGED <<mainvars, dvars, tvars, f_op, f_args>>

\* let cmd = format!(..) of the request of a bounded multi-scan
FormatMulti ==
    /\ f_state = "ready" /\ f_op \in MultiOps
    /\ f_cmd' = MultiCmd(f_op, f_args, f_args.num_of_scan)
    /\ f_state' = "done"
    /\ UNCHANGED <<mainvars, dvars, tvars, f_op, f_args>>

\* let cmd = format!(..) of the request of an infinite scan
FormatInfinite ==
    /\ f_state = "ready" /\ f_op \in InfiniteOps
    /\ f_cmd' = InfiniteCmd(f_op, f_args)
    /\ f_state' = "done"
    /\ UNCHANGED <<mainvars, dvars, tvars, f_op, f_args>>

FormatNext == FormatSingle \/ FormatMulti \/ FormatInfinite

SpecFormat == FormatInit /\ [][FormatNext]_vars

\* ------------------------------------- two threads calling &self operations
\* Urg is Sync and the queries and scan retrievals borrow &self: each call makes
\* its own BufReader and BufWriter over the one shared TcpStream.
ThreadOps == {"get_status_info", "get_distance"}
ThreadArgs == CHOOSE a \in ScanArgs : TRUE
ThreadCmd(o) == IF o = "get_status_info" THEN CmdII ELSE SingleCmd(o, ThreadArgs)

\* nothing in a call waits for another call on the same session to finish
MayCallExclusive(t) == \A u \in Threads \ {t} : threads[u].pc \in {"idle", "done"}
MayCall(t) == TRUE

Outcome(p, r, nf) == [pc |-> p, result |-> r, nfields |-> nf]

\* what a call does with the line it reads at its position: the steps of
\* check_send_cmd_response, recv_b_string_sub / recv_b_string_u32 and get_raw_data
ThreadOutcomes(st, line) ==
    LET o == st.op
        n == Len(line)
        nf == st.nfields
    IN IF st.pc = "echo"
       THEN IF n = 0 THEN {Outcome("done", "panic", nf)}
            ELSE IF ~EchoMatches(line, n, ThreadCmd(o)) THEN {Outcome("done", "err_echo", nf)}
            ELSE {Outcome("status", "none", nf)}
       ELSE IF st.pc = "status"
       THEN IF n < 2 THEN {Outcome("done", "panic", nf)}
            ELSE IF ~StatusMatches(line, n, Status00) THEN {Outcome("done", "err_status", nf)}
            ELSE {Outcome(AfterAck(o, 0), "none", nf)}
       ELSE IF st.pc = "field"
       THEN LET kind == FieldKinds(o)[nf + 1] IN
            IF n < 2 \/ Len(FieldContent(line)) < 6 THEN {Outcome("done", "err_field", nf)}
            ELSE IF kind = "u32" /\ ~ParseOk(FieldSub(line))
            THEN {Outcome("done", "err_parse", nf)}
            ELSE (IF FieldTraps(kind, FieldSub(line))
                  THEN {Outcome("done", "panic", nf)} ELSE {})
                 \cup {Outcome(IF nf + 1 = Len(FieldKinds(o)) THEN "close" ELSE "field",
                               "none", nf + 1)}
       ELSE IF st.pc = "close" THEN {Outcome("done", "ok", nf)}
       ELSE IF st.pc = "ts"
       THEN IF ~TimestampLenOk(n) THEN {Outcome("done", "err_timestamp", nf)}
            ELSE {Outcome("data", "none", nf)}
       ELSE IF n = 0 THEN {Outcome("done", "panic", nf)}
            ELSE IF IsTerminator(n) THEN {Outcome("done", "ok", nf)}
            ELSE {Outcome("data", "none", nf)}

\* the device's response lines, each with the thread whose command it answers
\* and its order number in the stream
Tagged(t, lines, from) ==
    [i \in 1..Len(lines) |-> [owner |-> t, line |-> lines[i], seq |-> from + i]]

ThreadsInit ==
    /\ Opened /\ device = "any" /\ DecodeOff /\ FormatOff
    /\ ThreadsOff

\* send_cmd's write_all / flush of thread t; the device answers the command
ThreadCall(t) ==
    /\ threads[t].pc = "idle" /\ MayCall(t)
    /\ \E o \in ThreadOps :
          /\ threads' = [threads EXCEPT ![t].pc = "echo", ![t].op = o]
          /\ \E r \in Response(o, ThreadCmd(o), ThreadArgs, 0, 0, 1) :
                /\ t_wire' = t_wire \o Tagged(t, r, t_sent)
                /\ t_sent' = t_sent + Len(r)
    /\ UNCHANGED <<mainvars, dvars, fvars, t_taken>>

\* read_until on thread t's BufReader with nothing buffered: one read of the
\* socket returns the bytes that are there, here any number of whole lines
ThreadFill(t) ==
    /\ threads[t].pc \in ReadPcs /\ threads[t].buf = <<>> /\ t_wire # <<>>
    /\ \E k \in 1..Len(t_wire) :
          /\ threads' = [threads EXCEPT ![t].buf = SubSeq(t_wire, 1, k)]
          /\ t_wire' = SubSeq(t_wire, k + 1, Len(t_wire))
          /\ t_taken' = t_taken \o [i \in 1..k |-> t_wire[i].seq]
    /\ UNCHANGED <<mainvars, dvars, fvars, t_sent>>

\* recv_data of thread t returns the next buffered line; when the call ends its
\* BufReader is dropped with whatever it still holds
ThreadRead(t) ==
    /\ threads[t].pc \in ReadPcs /\ threads[t].buf # <<>>
    /\ LET st == threads[t]
           e == Head(st.buf)
       IN \E out \in ThreadOutcomes(st, e.line) :
             threads' = [threads EXCEPT
                            ![t].pc = out.pc,
                            ![t].result = out.result,
                            ![t].nfields = out.nfields,
                            ![t].foreign = st.foreign \/ e.owner # t,
                            ![t].buf = IF out.pc = "done" THEN <<>> ELSE Tail(st.buf)]
    /\ UNCHANGED <<mainvars, dvars, fvars, t_wire, t_sent, t_taken>>

ThreadsNext == \E t \in Threads : ThreadCall(t) \/ ThreadFill(t) \/ ThreadRead(t)

SpecThreads == ThreadsInit /\ [][ThreadsNext]_vars

TypeOK ==
    /\ is_capturing \in BOOLEAN /\ consumed \in BOOLEAN
    /\ pc \in ReadPcs \cup {"idle"}
    /\ result \in Results
    /\ num_of_scan \in 0..MaxScan /\ remaining_scan \in 0..MaxScan
    /\ Len(payload) = Len(frames) \/ op \in SingleOps

\* what a bounded multi-scan hands to its caller: Ok(payload) after the loop, or
\* the error propagated by `?`, which drops the local payload
ReturnedRecords == IF op \in MultiOps /\ pc = "idle" /\ result = "ok" THEN payload ELSE <<>>

\* ----------------------------------------------------------------- claims
Errors == {"err_io", "err_echo", "err_status", "err_field", "err_parse", "err_timestamp"}
LineReads == {"echo", "status", "field", "ts", "data", "term", "close", "close_other"}
Returned == pc = "idle" /\ op # "none"
Count(s, t) == Cardinality({i \in DOMAIN s : s[i] = t})
Last(s) == s[Len(s)]
\* the latest write, line read or callback call of the operation
LastEvent == IF log = <<>> THEN "none" ELSE Last(log)
\* a two-digit decimal field, written out digit by digit
TwoDigits(n) == <<48 + (n \div 10), 48 + (n % 10)>>
\* the record that belongs to the i-th frame received
RecordOfFrame(i) == MakePayload(op, frames[i][1], frames[i][2])

\* C1: a bounded multi-scan with count N that returns success returns exactly N
\* records, after exactly N continuation handshakes, the i-th record decoded from
\* the i-th frame received, and the N-th frame's terminator is the last line it
\* read; it never holds more than N records.  (An operation that returned did so
\* with success or with an error; unwinding is not a return.)
C1_MultiExactlyN ==
    op \in MultiOps =>
        /\ Len(payload) <= num_of_scan
        /\ (Returned /\ result = "ok") =>
              /\ Len(payload) = num_of_scan
              /\ Len(acks) = num_of_scan + 1
              /\ \A i \in 1..Len(payload) : payload[i] = RecordOfFrame(i)
              /\ Count(log, "term") = num_of_scan
              /\ LastEvent = "term"
        /\ (Returned /\ result # "ok" /\ result # "panic") => result \in Errors

C1_Witness ==
    /\ op \in MultiOps /\ Returned /\ result = "ok"
    /\ num_of_scan >= 2
    /\ payload[1] # payload[2]

\* C2: in a bounded multi-scan with count N the request carries count field N and
\* is acknowledged with status "00"; the k-th continuation handshake compares the
\* echo with the request whose last two bytes are replaced by the two digits of
\* N - k, and the status with "99"; for N = 3 the count fields are 02, 01, 00.
C2_ExpectedCmd(k) ==
    SubSeq(written[1], 1, Len(written[1]) - 2) \o TwoDigits(num_of_scan - k)

C2_ContinuationHandshake ==
    op \in MultiOps =>
        /\ written[1] = C2_ExpectedCmd(0)
        /\ \A j \in 1..Len(acks) :
              acks[j] = <<C2_ExpectedCmd(j - 1), IF j = 1 THEN <<48, 48>> ELSE <<57, 57>>>>
        /\ pc \in {"echo", "status"} =>
              /\ Len(acks) <= num_of_scan
              /\ cmd = C2_ExpectedCmd(Len(acks))
              /\ ok_status = (IF Len(acks) = 0 THEN <<48, 48>> ELSE <<57, 57>>)
        /\ (num_of_scan = 3 /\ Len(acks) = 4) =>
              /\ SubSeq(acks[2][1], 14, 15) = <<48, 50>>
              /\ SubSeq(acks[3][1], 14, 15) = <<48, 49>>
              /\ SubSeq(acks[4][1], 14, 15) = <<48, 48>>

C2_Witness == op \in MultiOps /\ num_of_scan = 3 /\ Len(acks) = 4

\* C3: in an infinite scan whose callback first returns true on record k, the
\* callback is called once per frame received, in arrival order; the operation
\* returns success exactly when the k-th record was handed over, and the last
\* things it did were to read the k-th terminator and to call the callback.
C3_InfiniteStopsAtK ==
    op \in InfiniteOps =>
        /\ Len(payload) <= stop_at
        /\ Count(log, "callback") = Len(payload)
        /\ Count(log, "term") = Len(payload)
        /\ \A i \in 1..Len(payload) : payload[i] = RecordOfFrame(i)
        /\ (Len(payload) = stop_at) <=> (result = "ok")
        /\ result = "ok" =>
              /\ pc = "idle"
              /\ SubSeq(log, Len(log) - 1, Len(log)) = <<"term", "callback">>
              /\ Len(written) = 1

C3_Witness ==
    /\ op \in InfiniteOps /\ Returned /\ result = "ok"
    /\ stop_at = 2 /\ payload[1] # payload[2]

\* C4: an operation that reports success consumed a terminator line (only the
\* newline) wherever it consumed the closing line of an exchange.
C4_SuccessImpliesTerminator ==
    (Returned /\ result = "ok") => \A i \in DOMAIN log : log[i] # "close_other"

\* C5: when a complete (newline-terminated) echo line differs from the command
\* sent, the operation returns an echo-mismatch error and that echo is the last
\* line it read: no status, field, timestamp or data line is read.
C5_CompleteLine(line) == Len(line) >= 1 /\ Last(line) = NL

C5_EchoMismatchStops ==
    /\ (LastEvent = "echo" /\ C5_CompleteLine(buffer) /\ buffer # cmd \o <<NL>>)
          => (pc = "idle" /\ result = "err_echo")
    /\ result = "err_echo"
          => (pc = "idle" /\ LastEvent = "echo" /\ buffer # cmd \o <<NL>>)

C5_Witness ==
    /\ result = "err_echo" /\ op \in SingleOps \cup QueryOps
    /\ C5_CompleteLine(buffer) /\ Len(buffer) > 2

\* C6: whatever status line is received, of any length, if its content without
\* the last two bytes differs from the expected status the operation returns a
\* status-mismatch error, and the status line is the last line it read.
C6_Content(line) == IF Len(line) >= 2 THEN SubSeq(line, 1, Len(line) - 2) ELSE <<>>

C6_StatusMismatchIsError ==
    (LastEvent = "status" /\ Len(buffer) >= 1 /\ C6_Content(buffer) # ok_status)
        => (pc = "idle" /\ result = "err_status")

\* C7: a line read that returns 0 bytes, at any position, makes the operation
\* return an error to its caller: no panic, no success, no further read.
C7_EofIsError ==
    (LastEvent \in LineReads /\ buffer = EOF) => (pc = "idle" /\ result \in Errors)

\* C8: the session starts Idle; is_capturing becomes true only in the step in
\* which start_capture returns success after "BM" was acknowledged with status
\* "00", becomes false only in the step in which stop_capture returns success
\* after "QT" was acknowledged with "00", and an operation that fails leaves it
\* unchanged.
C8_Acked(c) ==
    /\ written = <<c>>
    /\ LastEvent = "status"
    /\ SubSeq(buffer, 1, Len(buffer) - 2) = <<48, 48>>

C8_Step ==
    /\ (~is_capturing /\ is_capturing') =>
          (op = "start_capture" /\ C8_Acked(<<66, 77>>) /\ pc' = "idle" /\ result' = "ok")
    /\ (is_capturing /\ ~is_capturing') =>
          (op = "stop_capture" /\ C8_Acked(<<81, 84>>) /\ pc' = "idle" /\ result' = "ok")
    /\ (pc' = "idle" /\ result' # "ok") => (is_capturing' = is_capturing)

C8_CaptureState == (op = "none" => ~is_capturing) /\ [][C8_Step]_vars

C8_Witness ==
    /\ is_capturing /\ op = "stop_capture" /\ Returned /\ result = "err_status"

\* C9: reboot writes "RB" and requires status "01"; only after that exchange
\* succeeded and its closing line was read does it write "RB" again, requiring
\* "00"; a failed first exchange leaves one write, and success needs both acks.
C9_RebootTwoExchanges ==
    op = "reboot" =>
        /\ written \in {<<CmdRB>>, <<CmdRB, CmdRB>>}
        /\ Count(log, "write") = Len(written)
        /\ Len(written) = 2 =>
              /\ Len(acks) >= 1 /\ acks[1] = <<<<82, 66>>, <<48, 49>>>>
              /\ SubSeq(log, 1, 3) = <<"write", "echo", "status">>
              /\ log[4] \in {"close", "close_other"}
              /\ log[5] = "write"
        /\ (pc \in {"echo", "status"}) =>
              ok_status = (IF Len(written) = 1 THEN <<48, 49>> ELSE <<48, 48>>)
        /\ (Returned /\ result = "ok") =>
              acks = << <<<<82, 66>>, <<48, 49>>>>, <<<<82, 66>>, <<48, 48>>>> >>
        /\ (Returned /\ result # "ok" /\ Len(acks) = 0) => Len(written) = 1

C9_Witness == op = "reboot" /\ Returned /\ result = "ok"

\* C10: every record a scan operation produces was decoded from a data block
\* whose length is a multiple of the record width (3 bytes, or 6 with intensity).
C10_RecordWidth == IF op \in IntensityOps THEN 6 ELSE 3

C10_BlockLengthChecked ==
    \A i \in 1..Len(frames) : Len(frames[i][2]) % C10_RecordWidth = 0

\* C11: every record of a distance+intensity operation has as many distances as
\* intensities, both the data block length divided by 6 (integer division, as
\* chunks_exact counts); every record of a distance-only operation has no
\* intensities and the data block length divided by 3 distances.
C11_RecordLengths ==
    \A i \in 1..Len(payload) :
        LET block == frames[i][2]
            rec == payload[i]
        IN IF op \in {"get_distance_intensity", "get_distance_intensity_multi",
                      "get_distance_intensity_infinite"}
           THEN /\ Len(rec.distance) = Len(rec.intensity)
                /\ Len(rec.distance) = Len(block) \div 6
           ELSE /\ rec.intensity = <<>>
                /\ Len(rec.distance) = Len(block) \div 3

C11_Witness ==
    /\ op = "get_distance_intensity_multi" /\ Returned /\ result = "ok"
    /\ Len(frames[1][2]) = 6
    /\ Len(payload[1].intensity) = 1

\* C12: in a scan-retrieval exchange the line read right after the status line
\* is the timestamp line.  If its length is not 6 (4 content bytes, checksum
\* byte, newline) the operation returns an error and reads nothing more;
\* otherwise the timestamp is the 6-bit value of its first 4 bytes and the
\* line is read before every line of the data block.
C12_SixBit(b) == (b - 48) % 64
C12_Value(line) ==
    C12_SixBit(line[1]) * 262144 + C12_SixBit(line[2]) * 4096
        + C12_SixBit(line[3]) * 64 + C12_SixBit(line[4])

RECURSIVE C13_Contents(_)
C13_Contents(lines) ==
    IF lines = <<>> THEN <<>>
    ELSE SubSeq(Head(lines), 1, Len(Head(lines)) - 2) \o C13_Contents(Tail(lines))

C13_BlockReader ==
    /\ raw_data = C13_Contents(block_lines)
    /\ \A i \in 1..Len(block_lines) : Len(block_lines[i]) >= 2
    /\ LastEvent = "term" =>
          /\ buffer = <<10>>
          /\ frames # <<>> /\ Last(frames)[2] = C13_Contents(block_lines)
    /\ (LastEvent = "term" /\ block_lines = << <<49, 68, 104, 80, 10>> >>) =>
          Last(frames)[2] = <<49, 68, 104>>
    /\ \A i \in 2..Len(log) : log[i - 1] = "term" => log[i] \notin {"data", "term", "ts"}

C13_Witness ==
    /\ LastEvent = "term"
    /\ block_lines = <<DataLine2, DataLine3>>
    /\ Last(frames)[2] = <<48, 65, 49, 68, 104>>

\* C14: whenever decode returns for a group of 1 to 4 bytes, the result is the
\* big-endian accumulation res = res * 64 + ((byte - 0x30) mod 64) over the
\* bytes in order and is below 2^(6k) for a k-byte group; decode("1Dh") = 5432.
RECURSIVE C14_Fold(_, _)
C14_Fold(acc, s) ==
    IF s = <<>> THEN acc ELSE C14_Fold(acc * 64 + ((Head(s) - 48) % 64), Tail(s))

C14_DecodeValue ==
    /\ (d_state = "done" /\ Len(d_raw) \in 1..4) =>
          /\ d_res = C14_Fold(0, d_raw)
          /\ d_res < 64 ^ Len(d_raw)
    /\ (d_state = "run" /\ Len(d_raw) \in 1..4) => d_res = C14_Fold(0, SubSeq(d_raw, 1, d_pos))
    /\ (d_state = "done" /\ d_raw = <<49, 68, 104>>) => d_res = 5432

C14_Witness == d_state = "done" /\ d_raw = <<49, 68, 104>> /\ d_res = 5432

\* C15: decode is total: for every byte slice it returns a number and never
\* fails, bytes below 0x30 included.
C15_DecodeTotal == d_state # "panic"

\* C16 as stated: within one operation no command line is written twice, and an
\* operation that failed has stopped at the failing write or read.
C16_FailingEvent ==
    IF result = "err_io" THEN {"write", "ioerr"}
    ELSE IF result = "err_echo" THEN {"echo"}
    ELSE IF result = "err_status" THEN {"status"}
    ELSE IF result = "err_timestamp" THEN {"ts"}
    ELSE {"field"}

C16_StopsAtFailure ==
    result \in Errors => (pc = "idle" /\ LastEvent \in C16_FailingEvent)

C16_Original ==
    /\ \A i, j \in 1..Len(written) : written[i] = written[j] => i = j
    /\ C16_StopsAtFailure

\* C16: no operation retries or resends.  Every operation writes one command
\* line, except reboot, which writes "RB" once for each of its two exchanges,
\* the second time only after the first exchange was acknowledged; every write
\* is a logged write, and an operation that failed (I/O error, echo or status
\* mismatch, malformed field or timestamp) has returned with the failing write
\* or read as its last event.
C16_NoResend ==
    /\ Count(log, "write") = Len(written)
    /\ (op # "none" /\ op # "reboot") => Len(written) = 1
    /\ op = "reboot" =>
          /\ Len(written) \in 1..2
          /\ Len(written) = 2 => (Len(acks) >= 1 /\ acks[1] = <<<<82, 66>>, <<48, 49>>>>)
    /\ C16_StopsAtFailure

C16_Witness ==
    /\ op = "reboot" /\ Returned /\ result = "err_echo"
    /\ written = <<CmdRB, CmdRB>> /\ LastEvent = "echo"

\* C17: over any sequence of operations at most one exchange is in flight: no
\* command is written while lines of an earlier response are unread, also after
\* a failed operation or a stopped infinite scan, so the echo line an operation
\* reads is the echo of its own command.
C17_OneExchangeInFlight ==
    /\ ~desync
    /\ LastEvent = "echo" => buffer = cmd \o <<10>>

\* C18: a bounded multi-scan whose j-th frame (1 < j <= N) fails still hands its
\* caller the j-1 records decoded before the failure, followed by the error.
C18_RecordsBeforeError ==
    (op \in MultiOps /\ Returned /\ result \in Errors) =>
        (Len(ReturnedRecords) = Len(frames) /\ ReturnedRecords = payload)

\* C19: an infinite scan writes exactly one command line, the 15-byte "MD"/"ME"
\* request with count "00"; every continuation verifies an echo of that same
\* string with status "99" and writes nothing, whatever the number of frames.
C19_InfiniteWritesOnce ==
    op \in InfiniteOps =>
        /\ Len(written) = 1 /\ Count(log, "write") = 1 /\ log[1] = "write"
        /\ Len(written[1]) = 15
        /\ SubSeq(written[1], 1, 2) =
              (IF op = "get_distance_infinite" THEN <<77, 68>> ELSE <<77, 69>>)
        /\ SubSeq(written[1], 14, 15) = <<48, 48>>
        /\ cmd = written[1]
        /\ \A j \in 1..Len(acks) :
              acks[j] = <<written[1], IF j = 1 THEN <<48, 48>> ELSE <<57, 57>>>>
        /\ (Len(acks) >= 1 /\ pc \in {"echo", "status"}) => ok_status = <<57, 57>>
        /\ Len(payload) <= Len(acks)

C19_Witness ==
    /\ op \in InfiniteOps /\ Returned /\ result = "ok"
    /\ Len(acks) = 3 /\ Len(payload) = 2 /\ Len(written) = 1

\* C20 as stated: every continuation of a bounded multi-scan that was verified
\* had its command line, carrying the new remaining count, written first.
C20_Original ==
    op \in MultiOps =>
        \A j \in 2..Len(acks) : Len(written) >= j /\ written[j] = acks[j][1]

\* C20: in bounded mode a continuation writes nothing: the one command line of
\* the operation is the initial request with count N, and each continuation
\* only verifies an echo carrying the new remaining count, with status "99".
C20_ContinuationsVerifyOnly ==
    op \in MultiOps =>
        /\ Len(written) = 1 /\ Count(log, "write") = 1 /\ log[1] = "write"
        /\ SubSeq(written[1], 14, 15) = TwoDigits(num_of_scan)
        /\ \A j \in 2..Len(acks) :
              /\ acks[j][2] = <<57, 57>>
              /\ SubSeq(acks[j][1], 1, 13) = SubSeq(written[1], 1, 13)
              /\ SubSeq(acks[j][1], 14, 15) = TwoDigits(num_of_scan - (j - 1))
        /\ (Len(acks) >= 1 /\ pc \in {"echo", "status"}) => cmd # written[1]

C20_Witness ==
    /\ op \in MultiOps /\ Returned /\ result = "ok"
    /\ num_of_scan = 3 /\ Len(acks) = 4 /\ Len(written) = 1

\* C21: each information query writes one command ("VV", "PP", "II") expecting
\* status "00", then reads 5, 8 and 7 field lines and one closing line; a field
\* value is taken from the line without its last two bytes, its first 5 bytes
\* and the byte before the checksum, and a field line whose content is shorter
\* than 6 bytes makes the query return an error.
C21_Command ==
    IF op = "get_version_info" THEN <<86, 86>>
    ELSE IF op = "get_sensor_params" THEN <<80, 80>>
    ELSE <<73, 73>>
C21_FieldCount ==
    IF op = "get_version_info" THEN 5 ELSE IF op = "get_sensor_params" THEN 8 ELSE 7
C21_Trim(line) == SubSeq(line, 6, Len(line) - 3)
C21_AllDigits(s) == s # <<>> /\ \A i \in 1..Len(s) : s[i] \in 48..57
RECURSIVE C21_Decimal(_)
C21_Decimal(s) == IF s = <<>> THEN 0 ELSE C21_Decimal(SubSeq(s, 1, Len(s) - 1)) * 10 + (s[Len(s)] - 48)
RECURSIVE C21_SixBit(_)
C21_SixBit(s) ==
    IF s = <<>> THEN 0 ELSE C21_SixBit(SubSeq(s, 1, Len(s) - 1)) * 64 + ((s[Len(s)] - 48) % 64)
\* numeric fields: the 2nd..8th of "PP" and the 3rd of "II"; 6-bit field: the 6th of "II"
C21_Numeric(i) ==
    (op = "get_sensor_params" /\ i >= 2) \/ (op = "get_status_info" /\ i = 3)
C21_Encoded(i) == op = "get_status_info" /\ i = 6

C21_QueryFields ==
    op \in {"get_version_info", "get_sensor_params", "get_status_info"} =>
        /\ written = <<C21_Command>> /\ Count(log, "write") = 1
        /\ ok_status = <<48, 48>>
        /\ Len(fields) <= C21_FieldCount /\ Count(log, "field") <= C21_FieldCount
        /\ (Returned /\ result = "ok") =>
              /\ Len(fields) = C21_FieldCount
              /\ Len(log) = C21_FieldCount + 4
              /\ SubSeq(log, 1, 3) = <<"write", "echo", "status">>
              /\ \A i \in 4..(C21_FieldCount + 3) : log[i] = "field"
              /\ Last(log) \in {"close", "close_other"}
        /\ LastEvent = "field" =>
              IF Len(buffer) - 2 < 6
              THEN pc = "idle" /\ result = "err_field"
              ELSE result \in {"none", "err_parse", "panic"}
        /\ (LastEvent = "field" /\ result = "none") =>
              /\ Len(fields) = Count(log, "field")
              /\ LET v == Last(fields)
                     t == C21_Trim(buffer)
                 IN IF C21_Numeric(Len(fields)) THEN C21_AllDigits(t) => v = C21_Decimal(t)
                    ELSE IF C21_Encoded(Len(fields)) THEN v = C21_SixBit(t)
                    ELSE v = t

C21_Witness ==
    /\ op = "get_status_info" /\ Returned /\ result = "ok"
    /\ Len(fields) = 7 /\ fields[1] = <<97, 98>> /\ fields[3] = 20

\* C22: a numeric field is accepted only if its trimmed content is a non-empty
\* string of ASCII digits; with an empty content or any other byte in it the
\* query returns an error and no record.
C22_NumericFieldDigitsOnly ==
    (/\ op \in {"get_sensor_params", "get_status_info"}
     /\ LastEvent = "field" /\ C21_Numeric(Count(log, "field"))
     /\ Len(buffer) >= 8
     /\ ~C21_AllDigits(C21_Trim(buffer)))
        => (pc = "idle" /\ result \in Errors)

\* C23: for all argument values the command line of a scan operation has fixed
\* field widths: "GD"/"GE" and 10 digits (12 characters), "MD"/"ME" and 13
\* digits (15 characters), each field zero-padded decimal.
C23_FixedWidths ==
    f_state = "done" =>
        /\ Len(f_cmd) = (IF f_op \in {"get_distance", "get_distance_intensity"} THEN 12 ELSE 15)
        /\ \A i \in 3..Len(f_cmd) : f_cmd[i] \in 48..57

\* C24 as stated: a line with exactly one byte before the newline (the lone
\* checksum byte) ends the data block.
C24_Original ==
    (LastEvent \in {"data", "term"} /\ Len(buffer) = 2) => (LastEvent = "term" /\ pc # "data")

\* C24: the block terminator is the line of length 1, the newline alone.  A
\* line with one byte before the newline is an ordinary block line with empty
\* content: the reader appends nothing for it and goes on reading.
C24_TerminatorIsNewlineOnly ==
    /\ LastEvent = "term" => (buffer = <<10>> /\ pc # "data")
    /\ (LastEvent = "data" /\ Len(buffer) = 2) =>
          /\ pc = "data" /\ result = "none"
          /\ Last(block_lines) = buffer
          /\ raw_data = C13_Contents(SubSeq(block_lines, 1, Len(block_lines) - 1))

C24_Witness ==
    /\ LastEvent = "term"
    /\ block_lines = <<DataLine3, ChecksumOnly>>
    /\ Last(frames)[2] = <<49, 68, 104>>

\* C27: in an infinite scan the caller's predicate is invoked only with the
\* record of a frame whose continuation handshake (echo, status "99"),
\* timestamp line and data block up to the terminator were all received; once
\* a frame fails the predicate is not invoked again and the operation returns
\* an error.
C27_FrameBefore(i) ==
    \E j \in 1..(i - 4) :
        /\ log[j] = "echo" /\ log[j + 1] = "status" /\ log[j + 2] = "ts"
        /\ \A k \in (j + 3)..(i - 2) : log[k] = "data"
        /\ log[i - 1] = "term"

\* the request exchange is over and the operation is reading frames
C27_InFrames == Count(log, "close") + Count(log, "close_other") >= 1

C27_PredicateOnCompleteFrames ==
    op \in {"get_distance_infinite", "get_distance_intensity_infinite"} =>
        /\ Count(log, "callback") = Len(payload)
        /\ Len(frames) = Len(payload)
        /\ Len(acks) >= Len(payload) + (IF payload = <<>> THEN 0 ELSE 1)
        /\ \A i \in 1..Len(payload) :
              /\ acks[i + 1][2] = <<57, 57>>
              /\ payload[i].time_stamp = frames[i][1]
        /\ \A i \in 1..Len(log) : log[i] = "callback" => C27_FrameBefore(i)
        /\ result \in Errors => (pc = "idle" /\ LastEvent \notin {"callback", "term"})
        /\ (pc = "idle" /\ result = "ok") => LastEvent = "callback"
        /\ (pc = "idle" /\ LastEvent # "callback" /\ C27_InFrames) => result \in Errors

\* C28: a line is interpreted only when it ended with a newline: when the
\* stream ends inside a line, the operation that read the partial bytes
\* returns an error at that read and does not use them.
C28_PartialLineIsError ==
    (LastEvent \in LineReads /\ buffer # <<>> /\ buffer[Len(buffer)] # 10)
        => (pc = "idle" /\ result \in Errors /\ raw_data = <<>>)

\* C26: the queries and the scan retrievals, whether they succeed or fail,
\* leave is_capturing, ip_address and port as they were; and a scan retrieval
\* can write its command whatever the value of is_capturing.
C26_Step ==
    /\ ip_address' = ip_address /\ port' = port
    /\ op' \notin {"start_capture", "stop_capture"} => is_capturing' = is_capturing

C26_CanCall == pc = "idle" /\ result # "panic" /\ ~consumed

C26_ScansEnabled ==
    C26_CanCall =>
        /\ ENABLED GetDistance /\ ENABLED GetDistanceIntensity
        /\ ENABLED GetDistanceMulti /\ ENABLED GetDistanceIntensityMulti
        /\ ENABLED GetDistanceInfinite /\ ENABLED GetDistanceIntensityInfinite

C26_FrameEffect == [](C26_ScansEnabled) /\ [][C26_Step]_vars

C26_Witness ==
    /\ is_capturing /\ op = "get_distance_multi" /\ Returned /\ result = "err_timestamp"
    /\ Len(payload) = 1

\* C25: access to the connection is not serialized: a thread can start a call
\* while another thread's call is under way, and whichever thread reads the
\* socket gets the oldest unread lines, whatever command they answer; so a
\* call can consume a response line sent for the other call's command.
C25_CallNotBlocked ==
    \A t \in {1, 2} : threads[t].pc = "idle" => ENABLED ThreadCall(t)

C25_SocketOrder ==
    /\ \A i \in 1..Len(t_taken) : t_taken[i] = i
    /\ \A i \in 1..Len(t_wire) : t_wire[i].seq = Len(t_taken) + i
    /\ \A t \in {1, 2} :
          threads[t].foreign => \E u \in {1, 2} \ {t} : threads[u].pc # "idle"

C25_NoSerialization == C25_CallNotBlocked /\ C25_SocketOrder

C25_Witness ==
    /\ threads[1].op = "get_status_info" /\ threads[2].op = "get_distance"
    /\ threads[1].foreign /\ threads[1].pc = "done" /\ threads[1].result = "err_field"
    /\ threads[1].nfields >= 1

====
